---- MODULE Spec2Model ----
(***************************************************************************)
(* Medicodio: the document upload endpoint (server index.js) and the       *)
(* extraction pipeline processDocument (documentProcessor.js).             *)
(*                                                                         *)
(* Strings are TLA+ strings, read character by character with SubSeq, so   *)
(* that String.prototype.includes, toLowerCase, path.extname, the fence    *)
(* regular expression, trim and JSON.parse are computed on the characters  *)
(* as the code computes them.                                              *)
(***************************************************************************)
EXTENDS Naturals, Sequences, FiniteSets, TLC

(* ------------------------------------------------------------------ *)
(* Bounds of the model                                                *)
(* ------------------------------------------------------------------ *)

\* Requests (or direct calls) handled one after the other in one behaviour.
MaxRequests == 1

\* Blank characters put around a model text (before and after it).
MaxPad == 1

(* ------------------------------------------------------------------ *)
(* Strings                                                            *)
(* ------------------------------------------------------------------ *)

\* s[i] of JavaScript (1-based here); "" outside the string.
Ch(s, i) == IF i >= 1 /\ i <= Len(s) THEN SubSeq(s, i, i) ELSE ""

\* Does t occur in s starting at position i.
StartsAt(s, i, t) ==
    /\ i >= 1
    /\ i + Len(t) - 1 <= Len(s)
    /\ SubSeq(s, i, i + Len(t) - 1) = t

\* String.prototype.includes
Includes(s, t) == \E i \in 1..(Len(s) + 1) : StartsAt(s, i, t)

UpperCase == "ABCDEFGHIJKLMNOPQRSTUVWXYZ"
LowerCase == "abcdefghijklmnopqrstuvwxyz"

LowerChar(c) ==
    IF \E k \in 1..26 : Ch(UpperCase, k) = c
    THEN Ch(LowerCase, CHOOSE k \in 1..26 : Ch(UpperCase, k) = c)
    ELSE c

\* String.prototype.toLowerCase
RECURSIVE ToLowerFrom(_, _)
ToLowerFrom(s, i) ==
    IF i > Len(s) THEN "" ELSE LowerChar(Ch(s, i)) \o ToLowerFrom(s, i + 1)

toLowerCase(s) == ToLowerFrom(s, 1)

\* Number to decimal string, as template literals and `+` on strings do.
RECURSIVE NumStr(_)
NumStr(n) ==
    IF n < 10 THEN Ch("0123456789", n + 1)
    ELSE NumStr(n \div 10) \o Ch("0123456789", (n % 10) + 1)

\* Position of the last occurrence of character c in s, 0 when absent.
LastIndexOf(s, c) ==
    IF \E i \in 1..Len(s) : Ch(s, i) = c
    THEN CHOOSE i \in 1..Len(s) :
            /\ Ch(s, i) = c
            /\ \A j \in (i + 1)..Len(s) : Ch(s, j) # c
    ELSE 0

\* path.basename: what follows the last "/".
basename(p) == SubSeq(p, LastIndexOf(p, "/") + 1, Len(p))

\* path.extname: from the last "." of the basename to its end; "" when the
\* basename has no "." or only a leading one.
extname(p) ==
    LET b == basename(p)
        d == LastIndexOf(b, ".")
    IN  IF d <= 1 THEN "" ELSE SubSeq(b, d, Len(b))

IsWhite(c) == c \in {" ", "\n", "\t", "\r"}

\* String.prototype.trim
RECURSIVE TrimLeft(_)
TrimLeft(s) ==
    IF Len(s) > 0 /\ IsWhite(Ch(s, 1)) THEN TrimLeft(SubSeq(s, 2, Len(s))) ELSE s

RECURSIVE TrimRight(_)
TrimRight(s) ==
    IF Len(s) > 0 /\ IsWhite(Ch(s, Len(s)))
    THEN TrimRight(SubSeq(s, 1, Len(s) - 1)) ELSE s

trim(s) == TrimRight(TrimLeft(s))

(* ------------------------------------------------------------------ *)
(* Response cleaning and JSON.parse                                   *)
(* ------------------------------------------------------------------ *)

\* The grave accent (U+0060) cannot be written in a TLA+ string; the model
\* writes it as the character below, which no model text uses otherwise.
Tick == "^"

\* Three grave accents: the Markdown code fence.
Fence == Tick \o Tick \o Tick

\* text.replace(/<fence>json\n?|\n?<fence>/g, ''): scanning left to right, at
\* each position the first alternative is tried, then the second; a match is
\* dropped and the scan goes on after it.
\* Length of the match of the expression at position i, 0 when there is none.
FenceMatch(s, i) ==
    IF StartsAt(s, i, Fence \o "json")
    THEN 7 + (IF Ch(s, i + 7) = "\n" THEN 1 ELSE 0)
    ELSE IF Ch(s, i) = "\n" /\ StartsAt(s, i + 1, Fence) THEN 4
    ELSE IF StartsAt(s, i, Fence) THEN 3
    ELSE 0

\* The first position from i on where the expression matches, 0 when none.
NextFence(s, i) ==
    LET at == {j \in i..Len(s) : FenceMatch(s, j) > 0} IN
    IF at = {} THEN 0 ELSE CHOOSE j \in at : \A k \in at : j <= k

RECURSIVE StripFencesFrom(_, _)
StripFencesFrom(s, i) ==
    LET j == NextFence(s, i) IN
    IF j = 0 THEN SubSeq(s, i, Len(s))
    ELSE SubSeq(s, i, j - 1) \o StripFencesFrom(s, j + FenceMatch(s, j))

\* cleanText of processDocument
CleanText(text) == trim(StripFencesFrom(text, 1))

\* JSON values: <<"str", s>>, <<"num", lexeme>>, <<"lit", name>>,
\* <<"arr", sequence of values>>, <<"obj", function from keys to values>>.
\* The grammar is that of JSON for the characters the model texts use:
\* integers without fraction or exponent, the escapes \" \\ \/ \n \t \r.
ParseFail == [ok |-> FALSE, val |-> <<>>, next |-> 0]

ParseOk(v, n) == [ok |-> TRUE, val |-> v, next |-> n]

RECURSIVE SkipWs(_, _)
SkipWs(s, i) == IF IsWhite(Ch(s, i)) THEN SkipWs(s, i + 1) ELSE i

IsDigit(c) == c # "" /\ Includes("0123456789", c)

Unescape(c) ==
    CASE c = "n" -> "\n"
      [] c = "t" -> "\t"
      [] c = "r" -> "\r"
      [] OTHER -> c

\* Characters that end a run of plain characters in a string literal: the
\* closing quote, the backslash of an escape, a control character.
IsSpecial(c) == c \in {"\"", "\\", "\n", "\t", "\r"}

\* The first special character from i on; Len(s) + 1 when there is none.
NextSpecial(s, i) ==
    LET at == {j \in i..Len(s) : IsSpecial(Ch(s, j))} IN
    IF at = {} THEN Len(s) + 1 ELSE CHOOSE j \in at : \A k \in at : j <= k

\* The characters of a string literal from position i (after the opening
\* quote) up to the closing quote; acc is what has been decoded so far.
RECURSIVE ParseChars(_, _, _)
ParseChars(s, i, acc) ==
    LET j == NextSpecial(s, i)
        c == Ch(s, j)
        run == acc \o SubSeq(s, i, j - 1)
    IN  IF c = "\"" THEN ParseOk(<<"str", run>>, j + 1)
        ELSE IF c = "\\" /\ Ch(s, j + 1) \in {"\"", "\\", "/", "n", "t", "r"}
        THEN ParseChars(s, j + 2, run \o Unescape(Ch(s, j + 1)))
        ELSE ParseFail

RECURSIVE DigitsEnd(_, _)
DigitsEnd(s, i) == IF IsDigit(Ch(s, i)) THEN DigitsEnd(s, i + 1) ELSE i

ParseNumber(s, i) ==
    LET d == IF Ch(s, i) = "-" THEN i + 1 ELSE i
        e == DigitsEnd(s, d)
    IN  IF e = d THEN ParseFail
        ELSE IF Ch(s, d) = "0" /\ e > d + 1 THEN ParseOk(<<"num", SubSeq(s, i, d)>>, d + 1)
        ELSE ParseOk(<<"num", SubSeq(s, i, e - 1)>>, e)

RECURSIVE ParseValue(_, _)
RECURSIVE ParseElements(_, _, _)
RECURSIVE ParseMembers(_, _, _)

\* The elements of an array from position i (an element is expected).
ParseElements(s, i, acc) ==
    LET v == ParseValue(s, i) IN
    IF ~v.ok THEN ParseFail
    ELSE LET j == SkipWs(s, v.next) IN
         IF Ch(s, j) = "," THEN ParseElements(s, j + 1, Append(acc, v.val))
         ELSE IF Ch(s, j) = "]" THEN ParseOk(<<"arr", Append(acc, v.val)>>, j + 1)
         ELSE ParseFail

\* The members of an object from position i (a key is expected); a key
\* given twice keeps its last value.
ParseMembers(s, i, acc) ==
    LET k == SkipWs(s, i) IN
    IF Ch(s, k) # "\"" THEN ParseFail
    ELSE LET key == ParseChars(s, k + 1, "") IN
         IF ~key.ok THEN ParseFail
         ELSE LET c == SkipWs(s, key.next) IN
              IF Ch(s, c) # ":" THEN ParseFail
              ELSE LET v == ParseValue(s, c + 1) IN
                   IF ~v.ok THEN ParseFail
                   ELSE LET name == key.val[2]
                            obj == [n \in (DOMAIN acc) \cup {name} |->
                                        IF n = name THEN v.val ELSE acc[n]]
                            j == SkipWs(s, v.next)
                        IN  IF Ch(s, j) = "," THEN ParseMembers(s, j + 1, obj)
                            ELSE IF Ch(s, j) = "}" THEN ParseOk(<<"obj", obj>>, j + 1)
                            ELSE ParseFail

ParseValue(s, i) ==
    LET j == SkipWs(s, i)
        c == Ch(s, j)
    IN  IF c = "{"
        THEN IF Ch(s, SkipWs(s, j + 1)) = "}"
             THEN ParseOk(<<"obj", <<>>>>, SkipWs(s, j + 1) + 1)
             ELSE ParseMembers(s, j + 1, <<>>)
        ELSE IF c = "["
        THEN IF Ch(s, SkipWs(s, j + 1)) = "]"
             THEN ParseOk(<<"arr", <<>>>>, SkipWs(s, j + 1) + 1)
             ELSE ParseElements(s, j + 1, <<>>)
        ELSE IF c = "\"" THEN ParseChars(s, j + 1, "")
        ELSE IF c = "-" \/ IsDigit(c) THEN ParseNumber(s, j)
        ELSE IF StartsAt(s, j, "true") THEN ParseOk(<<"lit", "true">>, j + 4)
        ELSE IF StartsAt(s, j, "false") THEN ParseOk(<<"lit", "false">>, j + 5)
        ELSE IF StartsAt(s, j, "null") THEN ParseOk(<<"lit", "null">>, j + 4)
        ELSE ParseFail

\* JSON.parse: one value, blanks around it, nothing else; ok is FALSE where
\* JSON.parse throws SyntaxError.
JSONParse(s) ==
    LET r == ParseValue(s, 1) IN
    IF r.ok /\ SkipWs(s, r.next) > Len(s)
    THEN [ok |-> TRUE, val |-> r.val]
    ELSE [ok |-> FALSE, val |-> <<>>]

(* ------------------------------------------------------------------ *)
(* documentProcessor.js: validation and error classification          *)
(* ------------------------------------------------------------------ *)

\* SUPPORTED_FORMATS: extension -> MIME type
SUPPORTED_FORMATS ==
    [e \in {".jpg", ".jpeg", ".png", ".gif", ".bmp", ".webp", ".pdf"} |->
        CASE e \in {".jpg", ".jpeg"} -> "image/jpeg"
          [] e = ".png" -> "image/png"
          [] e = ".gif" -> "image/gif"
          [] e = ".bmp" -> "image/bmp"
          [] e = ".webp" -> "image/webp"
          [] e = ".pdf" -> "application/pdf"]

\* Object.keys(SUPPORTED_FORMATS).join(', ')
SupportedList == ".jpg, .jpeg, .png, .gif, .bmp, .webp, .pdf"

MAX_FILE_SIZE == 20 * 1024 * 1024

\* !!SUPPORTED_FORMATS[ext]
IsSupported(ext) == ext \in DOMAIN SUPPORTED_FORMATS

UnsupportedMsg(ext) ==
    "Unsupported file format: " \o ext \o ". Supported formats: " \o SupportedList

TooLargeMsg(size) ==
    "File too large: " \o NumStr(size) \o " bytes. Maximum allowed: "
        \o NumStr(MAX_FILE_SIZE) \o " bytes"

EmptyMsg == "File is empty"

\* validateFile without its extension check.
validateFileNoExtCheck(filePath, size) ==
    IF size > MAX_FILE_SIZE THEN [ok |-> FALSE, message |-> TooLargeMsg(size)]
    ELSE IF size = 0 THEN [ok |-> FALSE, message |-> EmptyMsg]
    ELSE [ok |-> TRUE, message |-> ""]

\* validateFile refusing a file of exactly the maximum size.
validateFileOffByOne(filePath, size) ==
    LET ext == toLowerCase(extname(filePath)) IN
    IF size >= MAX_FILE_SIZE THEN [ok |-> FALSE, message |-> TooLargeMsg(size)]
    ELSE IF size = 0 THEN [ok |-> FALSE, message |-> EmptyMsg]
    ELSE IF ~IsSupported(ext) THEN [ok |-> FALSE, message |-> UnsupportedMsg(ext)]
    ELSE [ok |-> TRUE, message |-> ""]

\* validateFile, given stats.size of the file at filePath: ok, or the
\* message of the Error it throws.
validateFile(filePath, size) ==
    LET ext == toLowerCase(extname(filePath)) IN
    IF size > MAX_FILE_SIZE THEN [ok |-> FALSE, message |-> TooLargeMsg(size)]
    ELSE IF size = 0 THEN [ok |-> FALSE, message |-> EmptyMsg]
    ELSE IF ~IsSupported(ext) THEN [ok |-> FALSE, message |-> UnsupportedMsg(ext)]
    ELSE [ok |-> TRUE, message |-> ""]

\* getMimeType: the MIME type, or the message of the Error it throws.
getMimeType(filePath) ==
    LET ext == toLowerCase(extname(filePath)) IN
    IF IsSupported(ext) THEN [ok |-> TRUE, mimeType |-> SUPPORTED_FORMATS[ext], message |-> ""]
    ELSE [ok |-> FALSE, mimeType |-> "", message |-> UnsupportedMsg(ext)]

isImageFile(filePath) ==
    toLowerCase(extname(filePath)) \in {".jpg", ".jpeg", ".png", ".gif", ".bmp", ".webp"}

isPDFFile(filePath) == toLowerCase(extname(filePath)) = ".pdf"

InvalidFileMsg ==
    "Invalid file format or corrupted file. Please ensure the file is valid and in a supported format (JPEG, PNG, GIF, BMP, WebP, PDF)."

QuotaMsg == "API quota exceeded. Please try again later."

UnauthorizedMsg == "API key is invalid or unauthorized."

GenericPrefix == "Failed to process document: "

\* The catch block of processDocument: the message of the Error thrown to the
\* caller for a caught error with message msg.
Classify(msg) ==
    IF Includes(msg, "Bad Request") \/ Includes(msg, "not valid") THEN InvalidFileMsg
    ELSE IF Includes(msg, "quota") THEN QuotaMsg
    ELSE IF Includes(msg, "unauthorized") \/ Includes(msg, "API key") THEN UnauthorizedMsg
    ELSE IF Includes(msg, "Unsupported file format") THEN msg
    ELSE GenericPrefix \o msg

\* new Date().toISOString() at clock value t
ISOString(t) == "2024-01-01T00:00:0" \o NumStr(t) \o ".000Z"

\* The object processDocument returns when JSON.parse succeeded.
SuccessResult(filePath, t, json) ==
    [success |-> TRUE,
     fileName |-> basename(filePath),
     fileType |-> toLowerCase(extname(filePath)),
     processedAt |-> ISOString(t),
     extractedData |-> json]

ParseFailedMsg == "Failed to parse document information"

\* SoftFailure handing back the cleaned text instead of the model's text.
SoftFailureCleaned(filePath, t, rawText) ==
    [success |-> FALSE,
     fileName |-> basename(filePath),
     fileType |-> toLowerCase(extname(filePath)),
     processedAt |-> ISOString(t),
     error |-> ParseFailedMsg,
     rawResponse |-> CleanText(rawText)]

\* The object processDocument returns when JSON.parse threw.
SoftFailure(filePath, t, rawText) ==
    [success |-> FALSE,
     fileName |-> basename(filePath),
     fileType |-> toLowerCase(extname(filePath)),
     processedAt |-> ISOString(t),
     error |-> ParseFailedMsg,
     rawResponse |-> rawText]

(* ------------------------------------------------------------------ *)
(* Inputs                                                             *)
(* ------------------------------------------------------------------ *)

\* file.originalname of an upload, and the file names of direct callers
OriginalNames ==
    {"scan.png", "SCAN.PNG", "doc.pdf", "pic.gif", "setup.exe", "README", "notes.quota"}

\* file.mimetype as the client declares it
MimeTypes == {"image/png", "application/pdf", "image/gif"}

\* Content-Length of the uploaded part
UploadSizes == {0, 2000000, 5 * 1024 * 1024 + 1}

\* stats.size of the file of a direct caller of processDocument
DirectSizes == {0, 1, 20971519, 20971520, 20971521}

RECURSIVE Repeat(_, _)
Repeat(c, n) == IF n = 0 THEN "" ELSE c \o Repeat(c, n - 1)

\* Blank runs the model may put around its answer
Pads == {Repeat(c, n) : c \in {" ", "\n"}, n \in 0..MaxPad}

\* What the model answers between the fences (or alone)
Payloads ==
    {"{\"documentType\":\"passport\"}",
     "{ \"documentType\" : \"driving_license\", \"n\" : [1, 2] }",
     "{\"note\":\"" \o Fence \o "\"}",
     "I cannot process this image",
     "{\"documentType\":",
     ""}

Openers == {"", Fence \o "json", Fence \o "json\n"}

Closers == {"", Fence, "\n" \o Fence}

\* response.text() of a call that succeeded
Texts ==
    {pad \o open \o body \o close \o pad :
        pad \in Pads, open \in Openers, body \in Payloads, close \in Closers}

\* JSON.parse(cleanText) for every model text, computed once.
ParsedTexts == [t \in Texts |-> JSONParse(CleanText(t))]

\* The try/catch around JSON.parse: the value processDocument returns for
\* the model text.
Normalize(filePath, t, rawText) ==
    LET parsed == IF rawText \in Texts THEN ParsedTexts[rawText]
                  ELSE JSONParse(CleanText(rawText))
    IN  IF parsed.ok THEN SuccessResult(filePath, t, parsed.val)
        ELSE SoftFailure(filePath, t, rawText)

\* error.message of a call that failed
ErrorMessages ==
    {"[400 Bad Request] API key not valid. Please pass a valid API key.",
     "[429 Too Many Requests] You exceeded your current quota",
     "Request unauthorized: quota exhausted",
     "[403 Forbidden] unauthorized",
     "API key expired",
     "fetch failed",
     "Unsupported file format: video/mp4",
     "quota"}

\* How model.generateContent ends
Replies ==
    [kind : {"text"}, text : Texts, message : {""}]
        \cup [kind : {"error"}, text : {""}, message : ErrorMessages]
        \cup [kind : {"noresponse"}, text : {""}, message : {""}]

(* ------------------------------------------------------------------ *)
(* State                                                              *)
(* ------------------------------------------------------------------ *)

VARIABLES
    pc,        \* the caller: "idle", "awaitPD", "responded" (endpoint), "direct"
    reqs,      \* requests received so far; also the clock
    upload,    \* req.file as multer saw it, and what multer did with it
    filePath,  \* the argument of processDocument
    disk,      \* the files in storage: path -> size
    pd,        \* processDocument: "none", "calling", "returned", "thrown"
    request,   \* what was handed to generateContent
    genCalls,  \* calls of model.generateContent in this processDocument call
    reply,     \* how generateContent ended
    result,    \* the object processDocument returned
    thrown,    \* the Error processDocument threw
    unlinked,  \* outcome of fs.promises.unlink: "none", "ok", "failed"
    resp,      \* the response sent: status and JSON body
    errlog     \* console.error calls of the request, by their first argument

vars ==
    <<pc, reqs, upload, filePath, disk, pd, request, genCalls, reply, result,
      thrown, unlinked, resp, errlog>>

None == [none |-> TRUE]

\* req.file before any upload, and of a request without a file part
NoUpload == [originalname |-> "", mimetype |-> "", size |-> 0, multer |-> "none"]

NoError == [message |-> "", cause |-> "", origin |-> "none"]

NoResp == [status |-> 0, body |-> None]

NoReply == [kind |-> "none", text |-> "", message |-> ""]

NoDisk == [p \in {} |-> 0]

\* disk without the file at path
Remove(d, path) == [p \in (DOMAIN d) \ {path} |-> d[p]]

\* disk with a file of the given size at path
Store(d, path, size) ==
    [p \in (DOMAIN d) \cup {path} |-> IF p = path THEN size ELSE d[p]]

(* ------------------------------------------------------------------ *)
(* processDocument                                                    *)
(* ------------------------------------------------------------------ *)

\* An error reaches the catch block of processDocument, which logs it and
\* throws the classified Error to the caller.
PDThrow(msg, origin, logs) ==
    /\ pd' = "thrown"
    /\ thrown' = [message |-> Classify(msg), cause |-> msg, origin |-> origin]
    /\ errlog' = errlog \cup logs \cup {"Error processing document with Gemini:"}

\* processDocument up to the call of model.generateContent:
\* fileToGenerativePart (validateFile, getMimeType, readFile), the prompt.
PDStart ==
    /\ pd = "start"
    /\ LET size == disk[filePath]
           v == validateFile(filePath, size)
           m == getMimeType(filePath)
       IN  IF ~v.ok
           THEN /\ PDThrow(v.message, "validateFile",
                           {"File validation error:", "Error in fileToGenerativePart:"})
                /\ UNCHANGED <<request, genCalls>>
           ELSE IF ~m.ok
           THEN /\ PDThrow(m.message, "getMimeType", {"Error in fileToGenerativePart:"})
                /\ UNCHANGED <<request, genCalls>>
           ELSE IF ~isPDFFile(filePath) /\ ~isImageFile(filePath)
           THEN /\ PDThrow("Unsupported file type for processing", "prompt", {})
                /\ UNCHANGED <<request, genCalls>>
           ELSE /\ request' = [prompt |-> IF isPDFFile(filePath) THEN "pdf" ELSE "image",
                               mimeType |-> m.mimeType,
                               bytes |-> size]
                /\ genCalls' = genCalls + 1
                /\ pd' = "calling"
                /\ UNCHANGED <<thrown, errlog>>
    /\ UNCHANGED <<pc, reqs, upload, filePath, disk, reply, result, unlinked, resp>>

\* PDReply calling model.generateContent again after a first failed call.
PDReplyRetry(r) ==
    /\ pd = "calling"
    /\ reply' = r
    /\ IF r.kind = "error" /\ genCalls < 2
       THEN /\ genCalls' = genCalls + 1
            /\ UNCHANGED <<pd, thrown, errlog, result>>
       ELSE IF r.kind = "error"
       THEN /\ PDThrow(r.message, "generateContent", {})
            /\ UNCHANGED <<result, genCalls>>
       ELSE IF r.kind = "noresponse"
       THEN /\ PDThrow("No response received from Gemini API", "response", {})
            /\ UNCHANGED <<result, genCalls>>
       ELSE /\ result' = Normalize(filePath, reqs, r.text)
            /\ pd' = "returned"
            /\ errlog' = IF result'.success THEN errlog
                         ELSE errlog \cup {"Error parsing Gemini response:", "Raw response:"}
            /\ UNCHANGED <<thrown, genCalls>>
    /\ UNCHANGED <<pc, reqs, upload, filePath, disk, request, unlinked, resp>>

\* model.generateContent ends with reply r; processDocument runs to its end.
PDReply(r) ==
    /\ pd = "calling"
    /\ reply' = r
    /\ IF r.kind = "error"
       THEN /\ PDThrow(r.message, "generateContent", {})
            /\ UNCHANGED result
       ELSE IF r.kind = "noresponse"
       THEN /\ PDThrow("No response received from Gemini API", "response", {})
            /\ UNCHANGED result
       ELSE /\ result' = Normalize(filePath, reqs, r.text)
            /\ pd' = "returned"
            /\ errlog' = IF result'.success THEN errlog
                         ELSE errlog \cup {"Error parsing Gemini response:", "Raw response:"}
            /\ UNCHANGED thrown
    /\ UNCHANGED <<pc, reqs, upload, filePath, disk, request, genCalls, unlinked, resp>>

(* ------------------------------------------------------------------ *)
(* The upload endpoint                                                *)
(* ------------------------------------------------------------------ *)

\* fileFilter of multer
fileFilter(mimetype) == mimetype \in {"image/jpeg", "image/png", "application/pdf"}

FileFilterMsg == "Invalid file type. Only JPEG, PNG, and PDF files are allowed."

\* limits.fileSize of multer
FILE_SIZE_LIMIT == 5 * 1024 * 1024

UploadDir == "uploads/"

\* Math.round(Math.random() * 1E9): the values the model draws
RandomParts == {417}

\* filename of the disk storage: unique suffix, then the original extension
StoredName(t, rnd, originalname) ==
    NumStr(t) \o "-" \o NumStr(rnd) \o extname(originalname)

\* The error handling middleware: the response to an error err passed on
\* by multer.
ErrorMiddleware(err) ==
    IF err.multerError
    THEN IF err.code = "LIMIT_FILE_SIZE"
         THEN [status |-> 400, body |-> [error |-> "File size too large. Maximum size is 5MB."]]
         ELSE [status |-> 400, body |-> [error |-> err.message]]
    ELSE [status |-> 500, body |-> [error |-> "Internal server error"]]

SuccessMessage == "Document processed successfully"

\* The result nested under a field of its own instead of spread.
SuccessBodyNested(res) == [message |-> SuccessMessage, result |-> res]

\* { message: ..., ...result }
SuccessBody(res) ==
    [f \in {"message"} \cup DOMAIN res |->
        IF f \in DOMAIN res THEN res[f] ELSE SuccessMessage]

\* { error: error.message || 'Error processing document' }
ErrorBody(message) ==
    [error |-> IF message # "" THEN message ELSE "Error processing document"]

\* The variables of one processDocument call, before it.
FreshCall ==
    /\ request' = None
    /\ genCalls' = 0
    /\ reply' = NoReply
    /\ result' = None
    /\ thrown' = NoError
    /\ unlinked' = "none"

\* POST /api/upload with one file part: multer (fileFilter, limits, disk
\* storage), then the handler up to its call of processDocument.
Upload(originalname, mimetype, size, rnd) ==
    /\ pc \in {"idle", "responded"}
    /\ reqs < MaxRequests
    /\ reqs' = reqs + 1
    /\ FreshCall
    /\ IF ~fileFilter(mimetype)
       THEN /\ upload' = [originalname |-> originalname, mimetype |-> mimetype,
                          size |-> size, multer |-> "filtered"]
            /\ resp' = ErrorMiddleware([multerError |-> FALSE, code |-> "",
                                        message |-> FileFilterMsg])
            /\ errlog' = {FileFilterMsg}
            /\ pc' = "responded"
            /\ pd' = "none"
            /\ filePath' = ""
            /\ UNCHANGED disk
       ELSE IF size > FILE_SIZE_LIMIT
       THEN /\ upload' = [originalname |-> originalname, mimetype |-> mimetype,
                          size |-> size, multer |-> "limit"]
            /\ resp' = ErrorMiddleware([multerError |-> TRUE, code |-> "LIMIT_FILE_SIZE",
                                        message |-> "File too large"])
            /\ errlog' = {}
            /\ pc' = "responded"
            /\ pd' = "none"
            /\ filePath' = ""
            /\ UNCHANGED disk
       ELSE LET path == UploadDir \o StoredName(reqs', rnd, originalname) IN
            /\ upload' = [originalname |-> originalname, mimetype |-> mimetype,
                          size |-> size, multer |-> "stored"]
            /\ disk' = Store(disk, path, size)
            /\ filePath' = path
            /\ pd' = "start"
            /\ pc' = "awaitPD"
            /\ resp' = NoResp
            /\ errlog' = {}

\* POST /api/upload without a file part: req.file is undefined.
UploadNoFile ==
    /\ pc \in {"idle", "responded"}
    /\ reqs < MaxRequests
    /\ reqs' = reqs + 1
    /\ FreshCall
    /\ upload' = NoUpload
    /\ resp' = [status |-> 400, body |-> [error |-> "No file uploaded"]]
    /\ errlog' = {}
    /\ pc' = "responded"
    /\ pd' = "none"
    /\ filePath' = ""
    /\ UNCHANGED disk

\* HandlerResume with the unlink outside a try block of its own: its failure
\* reaches the catch block of the handler.
HandlerResumeUnlinkThrows(unlinkOk) ==
    /\ pc = "awaitPD"
    /\ pd = "returned"
    /\ IF unlinkOk
       THEN /\ disk' = Remove(disk, filePath)
            /\ unlinked' = "ok"
            /\ resp' = [status |-> 200, body |-> SuccessBody(result)]
            /\ UNCHANGED errlog
       ELSE /\ unlinked' = "failed"
            /\ errlog' = errlog \cup {"Error processing document:"}
            /\ resp' = [status |-> 500, body |-> ErrorBody("EACCES: permission denied, unlink")]
            /\ UNCHANGED disk
    /\ pc' = "responded"
    /\ UNCHANGED <<reqs, upload, filePath, pd, request, genCalls, reply, result, thrown>>

\* processDocument returned: the handler unlinks the file (which succeeds or
\* fails) and sends the result.
HandlerResume(unlinkOk) ==
    /\ pc = "awaitPD"
    /\ pd = "returned"
    /\ IF unlinkOk
       THEN /\ disk' = Remove(disk, filePath)
            /\ unlinked' = "ok"
            /\ UNCHANGED errlog
       ELSE /\ unlinked' = "failed"
            /\ errlog' = errlog \cup {"Error deleting file:"}
            /\ UNCHANGED disk
    /\ resp' = [status |-> 200, body |-> SuccessBody(result)]
    /\ pc' = "responded"
    /\ UNCHANGED <<reqs, upload, filePath, pd, request, genCalls, reply, result, thrown>>

\* processDocument threw: the catch block of the handler.
HandlerCatch ==
    /\ pc = "awaitPD"
    /\ pd = "thrown"
    /\ errlog' = errlog \cup {"Error processing document:"}
    /\ resp' = [status |-> 500, body |-> ErrorBody(thrown.message)]
    /\ pc' = "responded"
    /\ UNCHANGED <<reqs, upload, filePath, disk, pd, request, genCalls, reply, result,
                   thrown, unlinked>>

(* ------------------------------------------------------------------ *)
(* A direct caller of the exported processDocument                    *)
(* ------------------------------------------------------------------ *)

DirectDir == "docs/"

\* processDocument(filePath) on a file of the caller's.
DirectCall(name, size) ==
    /\ pc = "direct"
    /\ pd \in {"none", "returned", "thrown"}
    /\ reqs < MaxRequests
    /\ reqs' = reqs + 1
    /\ FreshCall
    /\ disk' = Store(disk, DirectDir \o name, size)
    /\ filePath' = DirectDir \o name
    /\ pd' = "start"
    /\ errlog' = {}
    /\ UNCHANGED <<pc, upload, resp>>

(* ------------------------------------------------------------------ *)
(* Specifications                                                     *)
(* ------------------------------------------------------------------ *)

Start(p) ==
    /\ pc = p
    /\ reqs = 0
    /\ upload = NoUpload
    /\ filePath = ""
    /\ disk = NoDisk
    /\ pd = "none"
    /\ request = None
    /\ genCalls = 0
    /\ reply = NoReply
    /\ result = None
    /\ thrown = NoError
    /\ unlinked = "none"
    /\ resp = NoResp
    /\ errlog = {}

\* The server, listening.
Init == Start("idle")

Next ==
    \/ \E n \in OriginalNames, m \in MimeTypes, s \in UploadSizes, r \in RandomParts :
          Upload(n, m, s, r)
    \/ UploadNoFile
    \/ PDStart
    \/ \E r \in Replies : PDReply(r)
    \/ \E ok \in BOOLEAN : HandlerResume(ok)
    \/ HandlerCatch

Spec == Init /\ [][Next]_vars

\* processDocument called directly.
InitDirect == Start("direct")

NextDirect ==
    \/ \E n \in OriginalNames, s \in DirectSizes : DirectCall(n, s)
    \/ PDStart
    \/ \E r \in Replies : PDReply(r)

SpecDirect == InitDirect /\ [][NextDirect]_vars

(* ------------------------------------------------------------------ *)
(* Properties                                                         *)
(* ------------------------------------------------------------------ *)

\* The extension of the file handed to processDocument, lower-cased.
FileExt == toLowerCase(extname(filePath))

\* The allow-list of the file validator.
AllowList == {".jpg", ".jpeg", ".png", ".gif", ".bmp", ".webp", ".pdf"}

\* The request stored a transient file.
StoredTransient == upload.multer = "stored"

\* C1: once the response of a request that stored a transient file has been
\* sent, whatever the outcome, the transient file is no longer in storage.
C1_TransientFileGone ==
    (pc = "responded" /\ StoredTransient) => filePath \notin DOMAIN disk

\* The reason of a validation failure of the request, "" when there is none:
\* the declared MIME type, the transport size ceiling, or what validateFile
\* found (size ceiling, empty file, extension).
ValidationReason ==
    IF upload.multer = "filtered" THEN "Invalid file type"
    ELSE IF upload.multer = "limit" THEN "File size too large"
    ELSE IF pd = "thrown" /\ thrown.origin = "validateFile"
         THEN IF upload.size = 0 THEN "File is empty"
              ELSE "Unsupported file format: " \o FileExt
    ELSE ""

\* C2: every validation failure (extension, declared MIME type, empty file,
\* file too large) is answered with a 4xx status and an error string that
\* gives the specific reason.
C2_ValidationFailureIs400 ==
    (pc = "responded" /\ ValidationReason # "") =>
        /\ resp.status \in 400..499
        /\ Includes(resp.body.error, ValidationReason)

\* The messages of the errors validateFile throws for the current file.
ValidationMessages ==
    {TooLargeMsg(disk[filePath]), EmptyMsg, UnsupportedMsg(FileExt)}

\* C3: for a file whose lower-cased extension is not in the allow-list,
\* processDocument throws, the error being raised by validateFile with a
\* validation message, and model.generateContent is never called.
C3_UnsupportedNeverReachesModel ==
    (filePath # "" /\ FileExt \notin AllowList) =>
        /\ genCalls = 0
        /\ request = None
        /\ reply = NoReply
        /\ pd \in {"start", "thrown"}
        /\ pd = "thrown" =>
              /\ thrown.origin = "validateFile"
              /\ thrown.cause \in ValidationMessages

C3_Witness ==
    /\ pd = "thrown"
    /\ filePath = DirectDir \o "setup.exe"
    /\ disk[filePath] = 1
    /\ thrown.cause = UnsupportedMsg(".exe")
    /\ genCalls = 0

\* JSON.parse of the cleaned text of the model's reply.
ReplyParsed == ParsedTexts[reply.text]

\* C4: when the model's text does not parse as JSON after cleaning,
\* processDocument returns (does not throw) success false, the error tag,
\* the file metadata and the unmodified model text as rawResponse, and the
\* endpoint answers with a 2xx status.
C4_ParseFailureIsSoft ==
    (reply.kind = "text" /\ ~ReplyParsed.ok) =>
        /\ pd = "returned"
        /\ thrown = NoError
        /\ DOMAIN result =
              {"success", "fileName", "fileType", "processedAt", "error", "rawResponse"}
        /\ result.success = FALSE
        /\ result.error = "Failed to parse document information"
        /\ result.rawResponse = reply.text
        /\ result.fileName = basename(filePath)
        /\ result.fileType = FileExt
        /\ pc = "responded" => resp.status \in 200..299

C4_Witness ==
    /\ pc = "responded"
    /\ reply.text = " I cannot process this image "
    /\ result.success = FALSE
    /\ result.rawResponse = " I cannot process this image "
    /\ resp.status = 200

\* The pattern classes of a collaborator error message.
IsMalformed(m) == Includes(m, "Bad Request") \/ Includes(m, "not valid")
IsQuota(m) == Includes(m, "quota")
IsUnauthorized(m) == Includes(m, "unauthorized") \/ Includes(m, "API key")

\* The message a four-way classification (no fifth branch) gives for message m.
FourWay(m) ==
    IF IsMalformed(m) THEN InvalidFileMsg
    ELSE IF IsQuota(m) THEN QuotaMsg
    ELSE IF IsUnauthorized(m) THEN UnauthorizedMsg
    ELSE GenericPrefix \o m

\* C5: a failed external call is classified by its message into exactly one
\* of four classes (malformed, quota, unauthorized, generic), the first of
\* malformed, quota, unauthorized winning, and the four messages differ.
C5_FourClasses ==
    (pd = "thrown" /\ thrown.origin = "generateContent") =>
        /\ thrown.message = FourWay(thrown.cause)
        /\ Cardinality({InvalidFileMsg, QuotaMsg, UnauthorizedMsg,
                        GenericPrefix \o thrown.cause}) = 4

\* C6: for every error raised by the external call, the message that
\* processDocument throws, and that the endpoint returns in its error field,
\* does not contain the collaborator's error text.
C6_NoVerbatimLeak ==
    (pd = "thrown" /\ thrown.origin = "generateContent") =>
        /\ ~Includes(thrown.message, thrown.cause)
        /\ pc = "responded" => ~Includes(resp.body.error, thrown.cause)

\* The response to a request whose pipeline returned res.
ExpectedSuccess(res, body) ==
    /\ DOMAIN body = {"message"} \cup DOMAIN res
    /\ body.message = "Document processed successfully"
    /\ \A f \in DOMAIN res : body[f] = res[f]

\* C7: a failed deletion of the transient file after the pipeline returned is
\* only logged; status and body are what they are when the deletion succeeds,
\* a function of the pipeline's result alone.
C7_UnlinkFailureOnlyLogged ==
    (pc = "responded" /\ unlinked # "none") =>
        /\ resp.status = 200
        /\ ExpectedSuccess(result, resp.body)
        /\ unlinked = "failed" <=> "Error deleting file:" \in errlog

C7_Witness ==
    /\ pc = "responded"
    /\ unlinked = "failed"
    /\ filePath \in DOMAIN disk
    /\ resp.status = 200
    /\ resp.body.success = TRUE

\* validateFile let the current file through.
ValidationPassed == ~(pd = "thrown" /\ thrown.origin = "validateFile")

\* C8: for a supported extension validateFile passes exactly when the size s
\* satisfies 0 < s <= 20 MiB; a zero-byte file fails whatever its extension.
C8_SizeBounds ==
    pd \in {"calling", "returned", "thrown"} =>
        LET s == disk[filePath] IN
        /\ FileExt \in AllowList =>
              (ValidationPassed <=> (0 < s /\ s <= 20971520))
        /\ s = 0 => ~ValidationPassed

C8_Witness ==
    /\ pd = "calling"
    /\ disk[filePath] = 20 * 1024 * 1024
    /\ FileExt \in AllowList

\* C9: on pipeline success the body is the fixed message plus every field of
\* the result; on pipeline failure the status is 5xx and the body has the one
\* field error, the failure reason.
C9_ResponseShape ==
    pc = "responded" =>
        /\ pd = "returned" =>
              /\ resp.body.message = SuccessMessage
              /\ \A f \in DOMAIN result : f \in DOMAIN resp.body /\ resp.body[f] = result[f]
              /\ DOMAIN resp.body \subseteq DOMAIN result \cup {"message"}
        /\ pd = "thrown" =>
              /\ resp.status \in 500..599
              /\ DOMAIN resp.body = {"error"}
              /\ resp.body.error = thrown.message

C9_Witness ==
    /\ pc = "responded"
    /\ pd = "returned"
    /\ result.success = TRUE
    /\ resp.body.extractedData = <<"obj", [documentType |-> <<"str", "passport">>]>>
    /\ resp.body.message = SuccessMessage

\* Model text that is valid JSON between an opening json fence and a closing
\* fence, each with its optional newline.
FencedJson(text, body) ==
    /\ JSONParse(body).ok
    /\ \E open \in {Fence \o "json", Fence \o "json\n"}, close \in {Fence, "\n" \o Fence} :
          text = open \o body \o close

\* C10: for valid JSON wrapped in an opening json fence and a closing fence,
\* the result is a success whose extractedData is the parsed JSON, with
\* fileName, fileType and processedAt attached.
C10_FencedJsonExtracted ==
    \A body \in Payloads :
        (pd = "returned" /\ FencedJson(reply.text, body)) =>
            /\ result.success = TRUE
            /\ result.extractedData = JSONParse(body).val
            /\ {"fileName", "fileType", "processedAt"} \subseteq DOMAIN result

\* C11: within one processDocument call model.generateContent is called at
\* most once; a failed call is not retried: the step in which it fails ends
\* the call with the error thrown from the catch block.
C11_SingleCallNoRetry ==
    /\ genCalls <= 1
    /\ reply.kind = "error" =>
          /\ genCalls = 1
          /\ pd = "thrown"
          /\ thrown.origin = "generateContent"
          /\ thrown.cause = reply.message
          /\ thrown.message # ""
          /\ result = None

C11_Witness ==
    /\ pd = "thrown"
    /\ reply.kind = "error"
    /\ reply.message = "fetch failed"
    /\ thrown.message = "Failed to process document: fetch failed"
    /\ genCalls = 1

\* C12: for a model text that is already valid JSON, cleaning leaves the
\* parsed structure unchanged: the result's extractedData, and the structure
\* after cleaning twice, are the structure of the text parsed directly.
C12_CleanJsonUnchanged ==
    (pd = "returned" /\ JSONParse(reply.text).ok) =>
        /\ result.success = TRUE
        /\ result.extractedData = JSONParse(reply.text).val
        /\ JSONParse(CleanText(CleanText(reply.text))) = JSONParse(reply.text)

\* C13: when validateFile rejects the file for its extension, processDocument
\* throws that error unchanged: never the malformed, quota or unauthorized
\* message, never the generic wrapping.
C13_UnsupportedRethrownAsIs ==
    (pd = "thrown" /\ thrown.origin = "validateFile"
        /\ thrown.cause = UnsupportedMsg(FileExt)) =>
            /\ thrown.message = thrown.cause
            /\ thrown.message \notin {InvalidFileMsg, QuotaMsg, UnauthorizedMsg}
            /\ ~StartsAt(thrown.message, 1, GenericPrefix)

====
